---- MODULE Spec2Model ----
(***************************************************************************)
(* gift_transfer (cdp_agentkit_core/actions/gift/gift.py): one linear      *)
(* function that asks the DEX for a buy quote, buys the memecoin into the  *)
(* escrow address, prices the purchase in USDC and records the gift with   *)
(* createGift, all inside one try/except.                                  *)
(*                                                                         *)
(* Python's int is unbounded and its float is an IEEE-754 double, while    *)
(* TLC's integers are 32 bits wide, so the amounts are kept as naturals in *)
(* limbs (least significant first, base 2^15) and the float arithmetic of  *)
(* lines 95, 112 and 161 is computed bit for bit: 53-bit significands,     *)
(* round to nearest, ties to even.                                         *)
(***************************************************************************)
EXTENDS Integers, Sequences, FiniteSets, TLC

----------------------------------------------------------------------------
(* Unbounded naturals (Python int), as sequences of limbs.                 *)

Base == 2^15

Limb(a, i) == IF i >= 1 /\ i <= Len(a) THEN a[i] ELSE 0

RECURSIVE BNorm(_)
BNorm(a) ==
    IF a = <<>> THEN <<>>
    ELSE IF a[Len(a)] # 0 THEN a
    ELSE BNorm(SubSeq(a, 1, Len(a) - 1))

\* A natural below 2^31 as limbs.
Big(n) ==
    BNorm(<<n % Base, (n \div Base) % Base, n \div (Base * Base)>>)

RECURSIVE BAddC(_, _, _, _)
BAddC(a, b, i, c) ==
    IF i > Len(a) /\ i > Len(b)
    THEN (IF c = 0 THEN <<>> ELSE <<c>>)
    ELSE LET s == Limb(a, i) + Limb(b, i) + c
         IN  <<s % Base>> \o BAddC(a, b, i + 1, s \div Base)

BAdd(a, b) == BAddC(a, b, 1, 0)

\* a - b for a >= b.
RECURSIVE BSubC(_, _, _, _)
BSubC(a, b, i, c) ==
    IF i > Len(a) THEN <<>>
    ELSE LET s == Limb(a, i) - Limb(b, i) - c
         IN  <<s % Base>> \o BSubC(a, b, i + 1, IF s < 0 THEN 1 ELSE 0)

BSub(a, b) == BNorm(BSubC(a, b, 1, 0))

RECURSIVE BLessFrom(_, _, _)
BLessFrom(a, b, i) ==
    IF i = 0 THEN FALSE
    ELSE IF a[i] # b[i] THEN a[i] < b[i]
    ELSE BLessFrom(a, b, i - 1)

BLess(a, b) ==
    IF Len(a) # Len(b) THEN Len(a) < Len(b) ELSE BLessFrom(a, b, Len(a))

BLeq(a, b) == ~BLess(b, a)

\* a * m for a limb-sized m.
RECURSIVE BMulSmallC(_, _, _, _)
BMulSmallC(a, m, i, c) ==
    IF i > Len(a)
    THEN (IF c = 0 THEN <<>> ELSE <<c>>)
    ELSE LET s == a[i] * m + c
         IN  <<s % Base>> \o BMulSmallC(a, m, i + 1, s \div Base)

BMulSmall(a, m) == IF m = 0 THEN <<>> ELSE BMulSmallC(a, m, 1, 0)

RECURSIVE BMulFrom(_, _, _)
BMulFrom(a, b, i) ==
    IF i > Len(b) THEN <<>>
    ELSE LET rest == BMulFrom(a, b, i + 1)
             up   == IF rest = <<>> THEN <<>> ELSE <<0>> \o rest
         IN  BAdd(BMulSmall(a, b[i]), up)

BMul(a, b) == IF a = <<>> THEN <<>> ELSE BMulFrom(a, b, 1)

\* The number of bits of a limb, and of a natural.
RECURSIVE LimbBitLen(_)
LimbBitLen(x) == IF x = 0 THEN 0 ELSE 1 + LimbBitLen(x \div 2)

BitLen(a) == IF a = <<>> THEN 0 ELSE 15 * (Len(a) - 1) + LimbBitLen(a[Len(a)])

Bit(a, i) == (Limb(a, (i \div 15) + 1) \div 2^(i % 15)) % 2

\* floor(a / 2^s)
BShr(a, s) ==
    LET q == s \div 15
        r == s % 15
        n == Len(a) - q
    IN  IF n <= 0 THEN <<>>
        ELSE BNorm(SubSeq([j \in 1..n |->
                 (Limb(a, j + q) \div 2^r) + (Limb(a, j + q + 1) % 2^r) * 2^(15 - r)],
                 1, n))

\* a * 2^s
BShl(a, s) ==
    LET q == s \div 15
        r == s % 15
        n == Len(a) + q + 1
    IN  IF a = <<>> THEN <<>>
        ELSE BNorm(SubSeq([j \in 1..n |->
                 IF j <= q THEN 0
                 ELSE (Limb(a, j - q) % 2^(15 - r)) * 2^r
                      + (Limb(a, j - q - 1) \div 2^(15 - r))],
                 1, n))

\* Whether a has a 1 among its lowest s bits.
LowBitsSet(a, s) == \E i \in 0..(s - 1) : Bit(a, i) = 1

\* Long division, one bit of the quotient per step: <<quotient, remainder>>.
\* (The test of the lengths has the step's q and r computed before the next.)
RECURSIVE BDivModFrom(_, _, _, _, _)
BDivModFrom(a, d, i, q, r) ==
    IF i < 0 \/ Len(q) + Len(r) < 0 THEN <<q, r>>
    ELSE LET r2 == BAdd(BShl(r, 1), IF Bit(a, i) = 1 THEN <<1>> ELSE <<>>)
             ge == BLeq(d, r2)
         IN  BDivModFrom(a, d, i - 1,
                 BAdd(BShl(q, 1), IF ge THEN <<1>> ELSE <<>>),
                 IF ge THEN BSub(r2, d) ELSE r2)

BDivMod(a, d) == BDivModFrom(a, d, BitLen(a) - 1, <<>>, <<>>)

BDiv(a, d) == BDivMod(a, d)[1]

----------------------------------------------------------------------------
(* Python float: a non-negative double is [m, e] with value m * 2^e, where *)
(* m has exactly 53 bits, or is zero.  The values the function computes    *)
(* stay far from the subnormal and overflow ranges.                        *)

FZero == [m |-> <<>>, e |-> 0]

\* The double nearest to m * 2^e (ties to even); sticky says that the exact
\* value lies strictly above m * 2^e by less than 2^e.
FRound(m, e, sticky) ==
    LET L == BitLen(m)
    IN  IF m = <<>> THEN FZero
        ELSE IF L <= 53 THEN [m |-> BShl(m, 53 - L), e |-> e - (53 - L)]
        ELSE LET s    == L - 53
                 q    == BShr(m, s)
                 half == Bit(m, s - 1) = 1
                 low  == LowBitsSet(m, s - 1) \/ sticky
                 up   == half /\ (low \/ Bit(q, 0) = 1)
                 q2   == IF up THEN BAdd(q, <<1>>) ELSE q
             IN  IF BitLen(q2) = 54
                 THEN [m |-> BShr(q2, 1), e |-> e + s + 1]
                 ELSE [m |-> q2, e |-> e + s]

\* float(n) for a Python int n >= 0
FromInt(n) == FRound(n, 0, FALSE)

\* x * y
FMul(x, y) == FRound(BMul(x.m, y.m), x.e + y.e, FALSE)

\* x / y for y > 0
FDiv(x, y) ==
    LET qr == BDivMod(BShl(x.m, 56), y.m)
    IN  FRound(qr[1], x.e - 56 - y.e, qr[2] # <<>>)

\* int(x): truncation
FTrunc(x) == IF x.e >= 0 THEN BShl(x.m, x.e) ELSE BShr(x.m, 0 - x.e)

\* A decimal literal n/d of the source is the double nearest to n/d.
FLit(n, d) == FDiv(FromInt(Big(n)), FromInt(Big(d)))

----------------------------------------------------------------------------
(* The inputs of the model.                                                *)

\* How many numeric amounts, buy quotes and sell quotes are tried.
MaxAmount == 3
MaxQuote == 2
MaxSell == 1

E18 == BMul(Big(10^9), Big(10^9))

\* A Python str is a decimal numeral of a natural, or a word that float() on line 95
\* rejects ("abc"; a str such as "1.5" is rejected one line later, by int()).
Str(n) == [kind |-> "decimal", val |-> n]
Word == [kind |-> "word", val |-> <<>>]

\* amount_eth_in_wei, small and large in turn: 0, 1 ETH, 25 wei (the fee rounds to
\* 0), 1 ETH + 100 wei (beyond 2^53, where float() rounds), 50 wei, ...
AmountOf(k) ==
    IF k % 2 = 0 THEN Big((25 * k) \div 2) ELSE BAdd(E18, Big(50 * (k - 1)))
Amounts == {Str(AmountOf(k)) : k \in 0..MaxAmount} \cup {Word}

\* What the DEX answers get_buy_quote: 150 token units, 10^18, 10^18 + 100, ...
QuoteOf(k) == IF k = 0 THEN Big(150) ELSE BAdd(E18, Big(100 * (k - 1)))
Quotes == {QuoteOf(k) : k \in 0..MaxQuote}

\* What the DEX answers get_sell_quote: 0.5 ETH, 1 ETH, ...
SellOf(k) == BMulSmall(BDiv(E18, Big(2)), k + 1)
Sells == {SellOf(k) : k \in 0..MaxSell}

Memecoins == {"0xMEME"}
Recipients == {"0xALICE", "0xBOB"}
Givers == {"0xGIVER"}
TxHashes == {"0xTX"}

\* wallet.network_id and wallet.default_address.address_id
network_id == "base-sepolia"
default_address == "0xWALLET"

None == <<>>
Some(x) == <<x>>

----------------------------------------------------------------------------
(* One invocation of gift_transfer at a time; the external calls it makes  *)
(* are logged with what they were given and what they answered.            *)

VARIABLES
    pc,                 \* where the invocation stands
    amount_eth_in_wei,  \* the arguments
    memecoin_address,
    recipient,
    giver,
    token_quote,        \* the locals, None until assigned
    platform_fee,
    total_eth_required,
    usdc_price,
    gift_result,
    calls,              \* the external calls made so far, in order
    result,             \* what the invocation gave its caller
    remember,           \* whether an earlier invocation is kept for comparison
    prev                \* that invocation: its arguments, calls and result

vars == <<pc, amount_eth_in_wei, memecoin_address, recipient, giver, token_quote,
          platform_fee, total_eth_required, usdc_price, gift_result, calls, result,
          remember, prev>>

args == <<amount_eth_in_wei, memecoin_address, recipient, giver>>
locals == <<token_quote, platform_fee, total_eth_required, usdc_price, gift_result>>

----------------------------------------------------------------------------
(* gift.py                                                                 *)

F003 == FLit(3, 100)
F099 == FLit(99, 100)
F1e18 == FromInt(E18)
F1e6 == FromInt(Big(1000000))

\* int(s), float(s) of a str: both raise ValueError on a word.
IsNumeric(s) == s.kind = "decimal"

\* line 95: platform_fee = int(float(amount_eth_in_wei) * 0.03)
PlatformFee(amount) == FTrunc(FMul(FromInt(amount.val), F003))

\* line 96: total_eth_required = str(int(amount_eth_in_wei) + platform_fee)
TotalEthRequired(amount, fee) == Str(BAdd(amount.val, fee))

\* line 112: str(int(float(token_quote) * 0.99))
MinOrderSize(quote) == Str(FTrunc(FMul(FromInt(quote), F099)))

\* The float arithmetic is the same for every state that holds the same input, so
\* each result is computed once per input of the model.
platform_fee_of == [a \in {x \in Amounts : IsNumeric(x)} |-> PlatformFee(a)]
min_order_size_of == [q \in Quotes |-> MinOrderSize(q)]

\* A variant that keeps the address in the module from one invocation to the next
\* and renews it.
escrow_address_cached == IF prev = None THEN "0x..." ELSE "0x...2"

\* line 99
escrow_address == "0x..."

\* A variant that has the tokens sent to the gift's recipient, not the escrow.
BuyArgsToRecipient(to, quote) ==
    [recipient         |-> to,
     refundRecipient   |-> default_address,
     orderReferrer     |-> "0x0000000000000000000000000000000000000000",
     expectedMarketType |-> "0",
     minOrderSize      |-> min_order_size_of[quote],
     sqrtPriceLimitX96 |-> "0",
     comment           |-> <<"Gift purchase for ", to>>]

\* lines 107-115: the args of the buy invocation
BuyArgs(to, quote) ==
    [recipient         |-> escrow_address,
     refundRecipient   |-> default_address,
     orderReferrer     |-> "0x0000000000000000000000000000000000000000",
     expectedMarketType |-> "0",
     minOrderSize      |-> min_order_size_of[quote],
     sqrtPriceLimitX96 |-> "0",
     comment           |-> <<"Gift purchase for ", to>>]

\* lines 159-161: int((float(sell_quote) / 1e18) * eth_price_in_usdc * 1e6)
eth_price_in_usdc == 2000
UsdcValue(wei) ==
    FTrunc(FMul(FMul(FDiv(FromInt(wei), F1e18), FromInt(Big(eth_price_in_usdc))),
                F1e6))
usdc_value_of == [s \in Sells |-> UsdcValue(s)]

\* A variant that takes the giver for the recipient.
CreateGiftArgsSwapped(memecoin, to, from, usdc, amount) ==
    [token                |-> memecoin,
     recipient            |-> from,
     giver                |-> to,
     redeemableUsdcAmount |-> usdc,
     initialBuyPrice      |-> amount]

\* lines 128-134: the args of the createGift invocation
CreateGiftArgs(memecoin, to, from, usdc, amount) ==
    [token                |-> memecoin,
     recipient            |-> to,
     giver                |-> from,
     redeemableUsdcAmount |-> usdc,
     initialBuyPrice      |-> amount]

\* lines 137-150: the message of a created gift, as the values it interpolates
SuccessPrefix == "Created gift transfer with fixed USDC redemption:\n"
SuccessMessage(quote, memecoin, from, to, amount, fee, usdc, tx) ==
    [prefix |-> SuccessPrefix,
     body   |-> <<quote, memecoin, from, to, amount.val, fee, usdc, tx>>]

\* line 153
ErrorPrefix == "Error in gift transfer: "
ErrorMessage(e) == [prefix |-> ErrorPrefix, body |-> <<e>>]

\* A variant with a narrower except clause: except ValueError.
CaughtValueErrorOnly(e) == e = "ValueError"

\* line 152: except Exception catches whatever a step raises
Caught(e) == TRUE

----------------------------------------------------------------------------
(* The steps of gift_transfer.                                              *)

NoResult == [kind |-> "none", text |-> [prefix |-> "", body |-> <<>>]]

\* An external call: what was called with what, and whether it returned (ret) or
\* raised.
Call(fn, target, method, a, value, ok, ret) ==
    [fn |-> fn, target |-> target, method |-> method, args |-> a, value |-> value,
     ok |-> ok, ret |-> ret]

Fresh ==
    /\ pc = "idle"
    /\ amount_eth_in_wei = Word
    /\ memecoin_address = ""
    /\ recipient = ""
    /\ giver = ""
    /\ token_quote = None
    /\ platform_fee = None
    /\ total_eth_required = None
    /\ usdc_price = None
    /\ gift_result = None
    /\ calls = <<>>
    /\ result = NoResult

Init == Fresh /\ remember = FALSE /\ prev = None

InitTwice == Fresh /\ remember = TRUE /\ prev = None

\* lines 67-73: the framework calls gift_transfer
GiftTransfer ==
    /\ pc = "idle"
    /\ \E a \in Amounts, m \in Memecoins, r \in Recipients, g \in Givers :
          /\ amount_eth_in_wei' = a
          /\ memecoin_address' = m
          /\ recipient' = r
          /\ giver' = g
    /\ pc' = "quote"
    /\ UNCHANGED <<locals, calls, result, remember, prev>>

\* A variant that tries the failed call once more before giving up.
RaiseAndRetry(e, cs) ==
    /\ pc' = "done"
    /\ calls' = IF cs = <<>> THEN cs ELSE Append(cs, cs[Len(cs)])
    /\ result' = [kind |-> "return", text |-> ErrorMessage(e)]
    /\ UNCHANGED <<args, locals, remember, prev>>

\* lines 152-153: a step raised e, having made the calls cs
Raise(e, cs) ==
    /\ pc' = "done"
    /\ calls' = cs
    /\ result' = IF Caught(e)
                 THEN [kind |-> "return", text |-> ErrorMessage(e)]
                 ELSE [kind |-> "raise", text |-> [prefix |-> "", body |-> <<e>>]]
    /\ UNCHANGED <<args, locals, remember, prev>>

\* lines 88-92
GetBuyQuote ==
    /\ pc = "quote"
    /\ LET req(ok, ret) ==
               Call("get_buy_quote", memecoin_address, "",
                    <<network_id, memecoin_address, amount_eth_in_wei>>, None, ok, ret)
       IN  \/ \E q \in Quotes :
                /\ token_quote' = Some(q)
                /\ calls' = Append(calls, req(TRUE, Some(q)))
                /\ pc' = "fee"
                /\ UNCHANGED <<args, platform_fee, total_eth_required, usdc_price,
                               gift_result, result, remember, prev>>
           \/ Raise("get_buy_quote", Append(calls, req(FALSE, None)))

\* lines 95-96
ComputeFee ==
    /\ pc = "fee"
    /\ IF IsNumeric(amount_eth_in_wei)
       THEN LET fee == platform_fee_of[amount_eth_in_wei]
            IN  /\ platform_fee' = Some(fee)
                /\ total_eth_required' = Some(TotalEthRequired(amount_eth_in_wei, fee))
                /\ pc' = "buy"
                /\ UNCHANGED <<args, token_quote, usdc_price, gift_result, calls,
                               result, remember, prev>>
       ELSE Raise("ValueError", calls)

\* A variant without the .wait() of line 118.
AfterInvokeNoWait(method) == IF method = "buy" THEN "price" ELSE "gift_wait"

\* What follows a contract invocation that was submitted: its wait().
AfterInvoke(method) == IF method = "buy" THEN "buy_wait" ELSE "gift_wait"

\* lines 103-117: wallet.invoke_contract(... method="buy" ...)
InvokeBuy ==
    /\ pc = "buy"
    /\ LET req(ok) ==
               Call("invoke_contract", memecoin_address, "buy",
                    BuyArgs(recipient, token_quote[1]), total_eth_required, ok, None)
       IN  \/ /\ calls' = Append(calls, req(TRUE))
              /\ pc' = AfterInvoke("buy")
              /\ UNCHANGED <<args, locals, result, remember, prev>>
           \/ Raise("invoke_contract", Append(calls, req(FALSE)))

\* line 118: .wait()
WaitBuy ==
    /\ pc = "buy_wait"
    /\ LET req(ok) == Call("wait", memecoin_address, "buy", <<>>, None, ok, None)
       IN  \/ /\ calls' = Append(calls, req(TRUE))
              /\ pc' = "price"
              /\ UNCHANGED <<args, locals, result, remember, prev>>
           \/ Raise("wait", Append(calls, req(FALSE)))

\* A variant that prices the gift at 0 when the sell quote fails, and goes on.
GetCurrentUsdcPriceFallback ==
    /\ pc = "price"
    /\ LET req(ok, ret) ==
               Call("get_sell_quote", memecoin_address, "",
                    <<network_id, memecoin_address, Str(token_quote[1])>>, None, ok, ret)
       IN  \E r \in {Some(x) : x \in Sells} \cup {None} :
                /\ usdc_price' = IF r = None THEN Some(<<>>) ELSE Some(usdc_value_of[r[1]])
                /\ calls' = Append(calls, req(r # None, r))
                /\ pc' = "gift"
                /\ UNCHANGED <<args, token_quote, platform_fee, total_eth_required,
                               gift_result, result, remember, prev>>

\* lines 121 and 155-162: get_current_usdc_price
GetCurrentUsdcPrice ==
    /\ pc = "price"
    /\ LET req(ok, ret) ==
               Call("get_sell_quote", memecoin_address, "",
                    <<network_id, memecoin_address, Str(token_quote[1])>>, None, ok, ret)
       IN  \/ \E sell_quote \in Sells :
                /\ usdc_price' = Some(usdc_value_of[sell_quote])
                /\ calls' = Append(calls, req(TRUE, Some(sell_quote)))
                /\ pc' = "gift"
                /\ UNCHANGED <<args, token_quote, platform_fee, total_eth_required,
                               gift_result, result, remember, prev>>
           \/ Raise("get_sell_quote", Append(calls, req(FALSE, None)))

\* lines 124-134: wallet.invoke_contract(... method="createGift" ...)
InvokeCreateGift ==
    /\ pc = "gift"
    /\ LET req(ok) ==
               Call("invoke_contract", escrow_address, "createGift",
                    CreateGiftArgs(memecoin_address, recipient, giver, usdc_price[1],
                                   amount_eth_in_wei),
                    None, ok, None)
       IN  \/ /\ calls' = Append(calls, req(TRUE))
              /\ pc' = AfterInvoke("createGift")
              /\ UNCHANGED <<args, locals, result, remember, prev>>
           \/ Raise("invoke_contract", Append(calls, req(FALSE)))

\* line 135: .wait()
WaitCreateGift ==
    /\ pc = "gift_wait"
    /\ LET req(ok, ret) == Call("wait", escrow_address, "createGift", <<>>, None, ok, ret)
       IN  \/ \E tx \in TxHashes :
                /\ gift_result' = Some(tx)
                /\ calls' = Append(calls, req(TRUE, Some(tx)))
                /\ pc' = "format"
                /\ UNCHANGED <<args, token_quote, platform_fee, total_eth_required,
                               usdc_price, result, remember, prev>>
           \/ Raise("wait", Append(calls, req(FALSE, None)))

\* lines 137-150: the message, built from the locals and gift_result.  Line 142
\* calls Web3.from_wei on the amount and line 143 on the fee; each returns or raises.
FormatResult ==
    /\ pc = "format"
    /\ LET req(wei, ok) == Call("from_wei", "", "", <<wei, "ether">>, None, ok, None)
           spent == req(amount_eth_in_wei.val, TRUE)
       IN  \/ /\ result' = [kind |-> "return",
                            text |-> SuccessMessage(token_quote[1], memecoin_address,
                                         giver, recipient, amount_eth_in_wei,
                                         platform_fee[1], usdc_price[1], gift_result[1])]
              /\ calls' = calls \o <<spent, req(platform_fee[1], TRUE)>>
              /\ pc' = "done"
              /\ UNCHANGED <<args, locals, remember, prev>>
           \/ Raise("from_wei", Append(calls, req(amount_eth_in_wei.val, FALSE)))
           \/ Raise("from_wei", calls \o <<spent, req(platform_fee[1], FALSE)>>)

\* The invocation is over: nothing of it is kept by the module.  (prev is the
\* observer's copy of one finished invocation, not the program's.)
Return ==
    /\ pc = "done"
    /\ pc' = "idle"
    /\ amount_eth_in_wei' = Word
    /\ memecoin_address' = ""
    /\ recipient' = ""
    /\ giver' = ""
    /\ token_quote' = None
    /\ platform_fee' = None
    /\ total_eth_required' = None
    /\ usdc_price' = None
    /\ gift_result' = None
    /\ calls' = <<>>
    /\ result' = NoResult
    /\ prev' \in IF remember
                 THEN {prev, Some([args |-> args, calls |-> calls, result |-> result])}
                 ELSE {prev}
    /\ UNCHANGED remember

Next ==
    \/ GiftTransfer
    \/ GetBuyQuote
    \/ ComputeFee
    \/ InvokeBuy
    \/ WaitBuy
    \/ GetCurrentUsdcPrice
    \/ InvokeCreateGift
    \/ WaitCreateGift
    \/ FormatResult
    \/ Return

Spec == Init /\ [][Next]_vars

\* The same program, with one finished invocation kept beside the running one.
SpecTwice == InitTwice /\ [][Next]_vars

----------------------------------------------------------------------------
(* The properties.                                                         *)

IsInvoke(c, m) == c.fn = "invoke_contract" /\ c.method = m
IsWait(c, m) == c.fn = "wait" /\ c.method = m

BuyIdx == {i \in DOMAIN calls : IsInvoke(calls[i], "buy")}
GiftIdx == {i \in DOMAIN calls : IsInvoke(calls[i], "createGift")}

\* The buy was submitted and its wait() returned, all before call i.
BuyCompletedBefore(i) ==
    \E w \in 1..(i - 1) :
        /\ IsWait(calls[w], "buy") /\ calls[w].ok
        /\ \E b \in 1..(w - 1) : IsInvoke(calls[b], "buy") /\ calls[b].ok

GiftCompleted ==
    \E w \in DOMAIN calls : IsWait(calls[w], "createGift") /\ calls[w].ok

ReturnedError == result.kind = "return" /\ result.text.prefix = ErrorPrefix
ReturnedSuccess == result.kind = "return" /\ result.text.prefix = SuccessPrefix

\* C1: the external calls come in one order.  The buy quote is the first call; the
\* buy is invoked only after the quote has returned; createGift is invoked only
\* after the buy was invoked and waited on successfully, and after the sell quote
\* that prices the gift returned and usdc_price was computed.
CallOrder ==
    /\ calls # <<>> => calls[1].fn = "get_buy_quote"
    /\ \A i \in BuyIdx :
          \E q \in 1..(i - 1) : calls[q].fn = "get_buy_quote" /\ calls[q].ok
    /\ \A i \in GiftIdx :
          /\ usdc_price # None
          /\ \E p \in 1..(i - 1) :
                /\ calls[p].fn = "get_sell_quote" /\ calls[p].ok
                /\ BuyCompletedBefore(p)

CreateGiftIssued == \E i \in GiftIdx : BuyCompletedBefore(i)

\* C2: no exception reaches the caller.  The invocation ends by returning; a call
\* that raised is the last call made, ends the invocation and gives the string
\* that starts "Error in gift transfer: "; an amount that is no number ends the
\* invocation the same way before any contract is invoked.
NeverPropagates ==
    /\ result.kind # "raise"
    /\ pc = "done" => result.kind = "return"
    /\ \A i \in DOMAIN calls :
          ~calls[i].ok => i = Len(calls) /\ pc = "done" /\ ReturnedError
    /\ (pc \notin {"idle", "quote", "fee"} /\ ~IsNumeric(amount_eth_in_wei)) =>
          pc = "done" /\ ReturnedError /\ BuyIdx = {} /\ GiftIdx = {}

BuyFailed ==
    /\ pc = "done"
    /\ \E i \in BuyIdx : ~calls[i].ok
    /\ GiftIdx = {}

\* C3 as stated: createGift carries the purchased token amount (the quote), with
\* the giver, the recipient, the USDC value and the memecoin address.
GiftCarriesTokenAmount ==
    \A i \in GiftIdx :
        LET a == calls[i].args
        IN  /\ a.token = memecoin_address
            /\ a.recipient = recipient
            /\ a.giver = giver
            /\ a.redeemableUsdcAmount = usdc_price[1]
            /\ \/ a.initialBuyPrice = Str(token_quote[1])
               \/ a.redeemableUsdcAmount = token_quote[1]

\* C3, amended: createGift is sent to the escrow address with no ETH and exactly
\* five arguments: the memecoin address, the caller's recipient, the caller's giver,
\* the computed USDC value, and as initialBuyPrice the amount_eth_in_wei string as
\* given (the ETH spent, fee excluded), not the number of tokens bought.
GiftArgs ==
    \A i \in GiftIdx :
        /\ calls[i].target = escrow_address
        /\ calls[i].value = None
        /\ calls[i].args = [token                |-> memecoin_address,
                            recipient            |-> recipient,
                            giver                |-> giver,
                            redeemableUsdcAmount |-> usdc_price[1],
                            initialBuyPrice      |-> amount_eth_in_wei]

GiftWithOtherTokenAmount ==
    \E i \in GiftIdx :
        /\ calls[i].ok
        /\ amount_eth_in_wei # Str(token_quote[1])
        /\ recipient # giver

\* The USDC value of the wei the sender spent, at the price the module uses.
usdc_value_of_amount ==
    [a \in {x \in Amounts : IsNumeric(x)} |-> UsdcValue(a.val)]

\* C4: the redeemableUsdcAmount given to createGift is the sender's initial buy
\* price: the USDC value of amount_eth_in_wei.
RedeemableIsInitialBuyPrice ==
    \A i \in GiftIdx :
        calls[i].args.redeemableUsdcAmount = usdc_value_of_amount[amount_eth_in_wei]

\* C5: the buy names the escrow address as the recipient of the tokens, never the
\* giver, the wallet or the gift's recipient, and createGift is sent to the address
\* the buy named.
EscrowRouting ==
    /\ \A i \in BuyIdx :
          /\ calls[i].args.recipient = escrow_address
          /\ calls[i].args.recipient \notin {giver, recipient, default_address}
    /\ \A i \in BuyIdx, j \in GiftIdx : calls[j].target = calls[i].args.recipient

BoughtAndGifted == BuyIdx # {} /\ GiftIdx # {} /\ GiftCompleted

Requests(cs) ==
    [i \in DOMAIN cs |-> <<cs[i].fn, cs[i].target, cs[i].method, cs[i].args, cs[i].value>>]
Responses(cs) == [i \in DOMAIN cs |-> <<cs[i].ok, cs[i].ret>>]

SameInputsAsBefore ==
    /\ pc = "done"
    /\ prev # None
    /\ prev[1].args = args
    /\ Responses(prev[1].calls) = Responses(calls)

\* C6: an invocation that was given the arguments of an earlier one, and whose
\* collaborators answered as they answered the earlier one, made the same calls
\* with the same arguments and returned the same string, whatever ran in between.
Stateless ==
    SameInputsAsBefore =>
        /\ Requests(prev[1].calls) = Requests(calls)
        /\ prev[1].result = result

SameGiftTwice == SameInputsAsBefore /\ ReturnedSuccess

\* floor(amount * 3 / 100) and floor(quote * 99 / 100), in integers.
exact_fee_of ==
    [a \in {x \in Amounts : IsNumeric(x)} |-> BDiv(BMulSmall(a.val, 3), Big(100))]
exact_min_order_of == [q \in Quotes |-> BDiv(BMulSmall(q, 99), Big(100))]

\* C7: the fee is floor(amount * 3 / 100); the buy is sent amount + fee; createGift
\* records the amount without the fee; so the ETH sent is at least the recorded
\* price, and equal to it only when the fee is 0.
FeeArithmetic ==
    /\ platform_fee # None =>
          /\ platform_fee[1] = exact_fee_of[amount_eth_in_wei]
          /\ total_eth_required[1] = Str(BAdd(amount_eth_in_wei.val, platform_fee[1]))
          /\ BLeq(amount_eth_in_wei.val, total_eth_required[1].val)
          /\ (amount_eth_in_wei = total_eth_required[1]) <=> (platform_fee[1] = <<>>)
    /\ \A i \in BuyIdx : calls[i].value = total_eth_required
    /\ \A i \in GiftIdx : calls[i].args.initialBuyPrice = amount_eth_in_wei

\* C8: minOrderSize is floor(quote * 99 / 100), never above the quote, and the quote
\* is the one asked for amount_eth_in_wei, without the fee.
SlippageArithmetic ==
    \A i \in BuyIdx :
        /\ calls[1].fn = "get_buy_quote"
        /\ calls[1].args[3] = amount_eth_in_wei
        /\ calls[1].ret = token_quote
        /\ calls[i].args.minOrderSize = Str(exact_min_order_of[token_quote[1]])
        /\ BLeq(calls[i].args.minOrderSize.val, token_quote[1])

\* C9: when a call made after the buy completed raises (the sell quote, the
\* createGift invocation or its wait), the invocation ends there with the error
\* string: the one buy stays completed with the escrow address as recipient, no
\* createGift has completed, and no further call is made.
NotAtomic ==
    \A i \in DOMAIN calls :
        (/\ ~calls[i].ok
         /\ BuyCompletedBefore(i)
         /\ calls[i].fn \in {"get_sell_quote", "invoke_contract", "wait"}) =>
            /\ pc = "done"
            /\ ReturnedError
            /\ i = Len(calls)
            /\ ~GiftCompleted
            /\ Cardinality(BuyIdx) = 1
            /\ \A b \in BuyIdx : calls[b].ok /\ calls[b].args.recipient = escrow_address

GiftWaitFailedAfterBuy ==
    /\ pc = "done"
    /\ \E i \in DOMAIN calls :
          IsWait(calls[i], "createGift") /\ ~calls[i].ok /\ BuyCompletedBefore(i)

\* C10: no call to the DEX or the wallet is made twice in an invocation, so there is
\* at most one buy and at most one createGift; the success message is returned only after exactly one buy
\* and exactly one createGift were invoked and waited on successfully; every other
\* invocation that ends returns the error string.
AtMostOnce ==
    /\ \A i, j \in DOMAIN calls :
          (i # j /\ calls[i].fn # "from_wei") =>
              <<calls[i].fn, calls[i].method>> # <<calls[j].fn, calls[j].method>>
    /\ Cardinality(BuyIdx) <= 1
    /\ Cardinality(GiftIdx) <= 1
    /\ (pc = "done" /\ ReturnedSuccess) =>
          /\ Cardinality(BuyIdx) = 1
          /\ Cardinality(GiftIdx) = 1
          /\ \A i \in BuyIdx \cup GiftIdx : calls[i].ok
          /\ GiftCompleted
          /\ \A i \in GiftIdx : BuyCompletedBefore(i)
    /\ (pc = "done" /\ ~ReturnedSuccess) => ReturnedError
    /\ pc # "done" => result = NoResult

GiftCreated == pc = "done" /\ ReturnedSuccess

====
